---- MODULE Spec2Model ----
(***************************************************************************)
(* Model of the chat relay of server/index.ts: the POST /api/chat handler  *)
(* (conversation truncation, upstream fetch, error branches and the        *)
(* streaming loop with its TextDecoder).                                   *)
(***************************************************************************)
EXTENDS Integers, Sequences, FiniteSets, TLC

VARIABLES
    keyConfigured,      \* process.env.OPENAI_API_KEY is set
    body,               \* req.body of the chat request
    pc,                 \* position of the handler (its await points)
    optimizedMessages,  \* the truncated message list
    sent,               \* requests sent to the upstream provider (fetch calls)
    streamOn,           \* truthiness of the destructured `stream`
    upStatus,           \* response.status of the upstream answer (0: none yet)
    resStatus,          \* res.statusCode
    contentType,        \* Content-Type header of the response
    resBody,            \* body sent with res.json
    headersSent,        \* the head of the response is on the wire
    endCalls,           \* number of times the response was completed
    escaped,            \* an exception left the handler
    decoder,            \* state of the TextDecoder of the stream branch
    received,           \* chunks read from upstream so far
    written,            \* bytes handed to res.write so far
    writeCalls,         \* number of res.write calls
    readsIssued,        \* number of reader.read() calls
    unforwarded,        \* received chunks with bytes not yet forwarded
    disconnected,       \* the caller has closed its connection
    readsAfterClose,    \* reader.read() calls issued after the disconnect
    upErrorBody,        \* body of a non-success upstream answer
    upstreamFailure,    \* the upstream failure the request met, if any
    tokensGenerated,    \* the output-token estimate of the stream loop
    handlers,           \* the chat requests in flight at the same time
    apiReq,             \* request to one of the stateless operations
    apiRes              \* its response

vars == <<keyConfigured, body, pc, optimizedMessages, sent, streamOn, upStatus,
          resStatus, contentType, resBody, headersSent, endCalls, escaped,
          decoder, received, written, writeCalls, readsIssued, unforwarded,
          disconnected, readsAfterClose, upErrorBody, upstreamFailure,
          tokensGenerated, handlers, apiReq, apiRes>>

reqVars == <<keyConfigured, body>>
resVars == <<resStatus, contentType, resBody, headersSent, endCalls>>
streamVars == <<decoder, received, written, writeCalls, readsIssued, unforwarded,
                readsAfterClose, tokensGenerated>>
chatVars == <<reqVars, pc, optimizedMessages, sent, streamOn, upStatus, resVars,
              escaped, streamVars, disconnected, upErrorBody, upstreamFailure>>
apiVars == <<apiReq, apiRes>>
otherVars == <<handlers, apiVars>>

-----------------------------------------------------------------------------
(* Bounds of the model *)

MaxMsgs == 14
MaxBytes == 3
MaxSseBytes == 4
MaxSuppliedTokens == 301

(* Program constants *)

KeepLast == 12
DefaultMaxTokens == 300

-----------------------------------------------------------------------------
(* Messages and the Conversation Truncator *)

Roles == {"system", "user"}

Min(S) == CHOOSE x \in S : \A y \in S : x <= y

IsSystem(m) == m.role = "system"
NotSystem(m) == m.role # "system"

\* messages.find(m => m.role === 'system'): the first match, or none
FindSystemLast(msgs) ==
    LET S == { i \in DOMAIN msgs : IsSystem(msgs[i]) }
    IN  IF S = {} THEN << >>
        ELSE << msgs[CHOOSE x \in S : \A y \in S : x >= y] >>

FindSystem(msgs) ==
    LET S == { i \in DOMAIN msgs : IsSystem(msgs[i]) }
    IN  IF S = {} THEN << >> ELSE << msgs[Min(S)] >>

\* userMessages.slice(-n)
SliceLast(s, n) ==
    IF Len(s) <= n THEN s ELSE SubSeq(s, Len(s) - n + 1, Len(s))

SliceFirst(s, n) ==
    IF Len(s) <= n THEN s ELSE SubSeq(s, 1, n)

TruncateKeepFirst(msgs) ==
    FindSystem(msgs) \o SliceFirst(SelectSeq(msgs, NotSystem), KeepLast)

Truncate(msgs) ==
    FindSystem(msgs) \o SliceLast(SelectSeq(msgs, NotSystem), KeepLast)

-----------------------------------------------------------------------------
(* TextDecoder('utf-8') in stream mode, and the UTF-8 encoding res.write   *)
(* applies to the decoded string                                           *)

UpstreamBytes == {97, 187, 191, 239, 255}

Replacement == 65533
BOM == 65279

NewDecoder ==
    [cp |-> 0, needed |-> 0, seen |-> 0, lower |-> 128, upper |-> 191,
     bomSeen |-> FALSE]

ResetSequence(d) ==
    [d EXCEPT !.cp = 0, !.needed = 0, !.seen = 0, !.lower = 128, !.upper = 191]

\* a byte met while no sequence is open
DecodeLead(d, b) ==
    IF b <= 127 THEN [dec |-> d, out |-> << b >>]
    ELSE IF b >= 194 /\ b <= 223
        THEN [dec |-> [d EXCEPT !.needed = 1, !.cp = b - 192], out |-> << >>]
    ELSE IF b >= 224 /\ b <= 239
        THEN [dec |-> [d EXCEPT !.needed = 2, !.cp = b - 224,
                                !.lower = IF b = 224 THEN 160 ELSE 128,
                                !.upper = IF b = 237 THEN 159 ELSE 191],
              out |-> << >>]
    ELSE IF b >= 240 /\ b <= 244
        THEN [dec |-> [d EXCEPT !.needed = 3, !.cp = b - 240,
                                !.lower = IF b = 240 THEN 144 ELSE 128,
                                !.upper = IF b = 244 THEN 143 ELSE 191],
              out |-> << >>]
    ELSE [dec |-> d, out |-> << Replacement >>]

DecodeByte(d, b) ==
    IF d.needed = 0 THEN DecodeLead(d, b)
    ELSE IF b < d.lower \/ b > d.upper
        THEN LET r == DecodeLead(ResetSequence(d), b)
             IN  [dec |-> r.dec, out |-> << Replacement >> \o r.out]
    ELSE LET c == d.cp * 64 + (b - 128)
         IN  IF d.seen + 1 = d.needed
                THEN [dec |-> ResetSequence(d), out |-> << c >>]
                ELSE [dec |-> [d EXCEPT !.cp = c, !.seen = d.seen + 1,
                                        !.lower = 128, !.upper = 191],
                      out |-> << >>]

RECURSIVE DecodeBytes(_, _)
DecodeBytes(d, bytes) ==
    IF bytes = << >> THEN [dec |-> d, out |-> << >>]
    ELSE LET r == DecodeByte(d, Head(bytes))
             t == DecodeBytes(r.dec, Tail(bytes))
         IN  [dec |-> t.dec, out |-> r.out \o t.out]

\* the first code point of the stream is dropped when it is a byte order mark
StripBOM(r) ==
    IF r.dec.bomSeen \/ r.out = << >> THEN r
    ELSE [dec |-> [r.dec EXCEPT !.bomSeen = TRUE],
          out |-> IF Head(r.out) = BOM THEN Tail(r.out) ELSE r.out]

\* decoder.decode(value, { stream: true })
Decode(d, value) == StripBOM(DecodeBytes(d, value))

EncodeCodePoint(c) ==
    IF c < 128 THEN << c >>
    ELSE IF c < 2048 THEN << 192 + (c \div 64), 128 + (c % 64) >>
    ELSE IF c < 65536
        THEN << 224 + (c \div 4096), 128 + ((c \div 64) % 64), 128 + (c % 64) >>
    ELSE << 240 + (c \div 262144), 128 + ((c \div 4096) % 64),
            128 + ((c \div 64) % 64), 128 + (c % 64) >>

RECURSIVE Encode(_)
Encode(str) ==
    IF str = << >> THEN << >> ELSE EncodeCodePoint(Head(str)) \o Encode(Tail(str))

\* bytes of an unfinished character the decoder keeps back
PendingBytes(d) == IF d.needed = 0 THEN 0 ELSE d.seen + 1

RECURSIVE Flatten(_)
Flatten(chunks) ==
    IF chunks = << >> THEN << >> ELSE Head(chunks) \o Flatten(Tail(chunks))


-----------------------------------------------------------------------------
(* The usage telemetry of the stream loop.  A chunk is the sequence of the *)
(* code points of the decoded string; five of them abbreviate the pieces   *)
(* of an event-stream line: DataPrefix the characters `data:`, Sentinel    *)
(* the characters `[DONE]`, DeltaOpen the JSON text up to the content of   *)
(* choices[0].delta, ContentChar one character of that content and         *)
(* DeltaClose the JSON text that closes the object.                        *)

NewLine == 10
Space == 32
DataPrefix == 100
Sentinel == 91
DeltaOpen == 123
ContentChar == 99
DeltaClose == 125

WhiteSpace == {9, NewLine, 13, Space, BOM}

\* chunk.split('\n')
RECURSIVE SplitLines(_, _)
SplitLines(str, line) ==
    IF str = << >> THEN << line >>
    ELSE IF Head(str) = NewLine THEN << line >> \o SplitLines(Tail(str), << >>)
    ELSE SplitLines(Tail(str), Append(line, Head(str)))

RECURSIVE TrimStart(_)
TrimStart(s) ==
    IF s # << >> /\ Head(s) \in WhiteSpace THEN TrimStart(Tail(s)) ELSE s

RECURSIVE TrimEnd(_)
TrimEnd(s) ==
    IF s # << >> /\ s[Len(s)] \in WhiteSpace
        THEN TrimEnd(SubSeq(s, 1, Len(s) - 1)) ELSE s

Trim(s) == TrimEnd(TrimStart(s))

\* line.trim().startsWith('data:')
IsDataLine(line) == Trim(line) # << >> /\ Head(Trim(line)) = DataPrefix

\* line.replace('data:', ''): the first occurrence only
RECURSIVE RemoveFirstData(_)
RemoveFirstData(line) ==
    IF line = << >> THEN << >>
    ELSE IF Head(line) = DataPrefix THEN Tail(line)
    ELSE << Head(line) >> \o RemoveFirstData(Tail(line))

\* JSON.parse(data) succeeds on a whole delta object
ParsesAsDelta(data) ==
    /\ Len(data) >= 2
    /\ data[1] = DeltaOpen
    /\ data[Len(data)] = DeltaClose
    /\ \A i \in 2..(Len(data) - 1) : data[i] = ContentChar

\* Math.ceil(content.length / 4), nothing for an empty content
ContentTokens(data) == (Len(data) - 2 + 3) \div 4

LineTokens(line) ==
    LET data == Trim(RemoveFirstData(line))
    IN  IF data = << Sentinel >> THEN 0
        ELSE IF ParsesAsDelta(data) THEN ContentTokens(data)
        ELSE 0

RECURSIVE SumTokens(_)
SumTokens(lines) ==
    IF lines = << >> THEN 0
    ELSE (IF IsDataLine(Head(lines)) THEN LineTokens(Head(lines)) ELSE 0)
         + SumTokens(Tail(lines))

\* the tokens one chunk adds to tokensGenerated
Telemetry(chunk) == SumTokens(SplitLines(chunk, << >>))

-----------------------------------------------------------------------------
(* The request and the response *)

\* a null element of the messages array (not an object)
NullMsg == [role |-> "null", id |-> 0]

StreamValues == {"absent", "true", "false"}

ArrayBodies(lists, streams) ==
    { [kind |-> "array", messages |-> m, stream |-> s, maxTokens |-> << >>] :
        m \in lists, s \in streams }

\* the message arrays of the requests the relay is followed on
RelayMessages ==
    { << >>,
      << [role |-> "user", id |-> 1] >>,
      << [role |-> "user", id |-> 1], [role |-> "system", id |-> 2] >>,
      << NullMsg >> }

Bodies ==
    { [kind |-> k, messages |-> << >>, stream |-> s, maxTokens |-> << >>] :
        k \in {"absent", "notArray"}, s \in StreamValues }
    \cup ArrayBodies(RelayMessages, StreamValues)

NoBody == [kind |-> "none", error |-> ""]
ErrorJson(m) == [kind |-> "error", error |-> m]
DataJson == [kind |-> "data", error |-> ""]

UpstreamStatuses == {200, 401, 429, 500}
Ok(s) == s >= 200 /\ s <= 299

UpstreamErrorBodies ==
    {"unparseable", "null", "object", "error_without_message",
     "error_empty_message", "error_message"}
UpstreamMessage == "upstream message"

UpstreamJsonBodies == {"unparseable", "null", "completion"}

\* maxTokens = 300: the default applies when the caller supplies none
MaxTokens(b) ==
    IF b.maxTokens = << >> THEN DefaultMaxTokens ELSE b.maxTokens[1]

\* !messages || !Array.isArray(messages)
InvalidMessagesAbsentOnly(b) == b.kind = "absent"

InvalidMessages(b) == b.kind # "array"

HasNull(msgs) == \E i \in DOMAIN msgs : msgs[i] = NullMsg

\* the checks of the handler before its fetch, in their order
PreflightValidateFirst(key, b) ==
    IF InvalidMessages(b) THEN "input"
    ELSE IF ~key THEN "config"
    ELSE IF HasNull(b.messages) THEN "throws"
    ELSE "ok"

Preflight(key, b) ==
    IF ~key THEN "config"
    ELSE IF InvalidMessages(b) THEN "input"
    ELSE IF HasNull(b.messages) THEN "throws"
    ELSE "ok"

\* res.status(s).json({ error: m }); res.json keeps a Content-Type already set
ResJson(ct, s, b) ==
    /\ resStatus' = s
    /\ contentType' = IF ct = "none" THEN "application/json" ELSE ct
    /\ resBody' = b
    /\ headersSent' = TRUE
    /\ endCalls' = endCalls + 1

\* res.end()
ResEndTwice ==
    /\ headersSent' = TRUE
    /\ endCalls' = endCalls + 2
    /\ UNCHANGED <<resStatus, contentType, resBody>>

ResEnd ==
    /\ headersSent' = TRUE
    /\ endCalls' = endCalls + 1
    /\ UNCHANGED <<resStatus, contentType, resBody>>

\* the catch of the handler's outer try
OuterCatchRethrow ==
    /\ escaped' = TRUE
    /\ pc' = "threw"
    /\ UNCHANGED resVars

OuterCatch ==
    /\ ResJson(contentType, 500, ErrorJson("Internal server error"))
    /\ pc' = "done"
    /\ UNCHANGED escaped

\* errorData.error?.message || 'OpenAI API error'
ErrorMessage(e) ==
    IF e = "error_message" THEN UpstreamMessage ELSE "OpenAI API error"

-----------------------------------------------------------------------------
(* The handler of POST /api/chat, one action per stretch between awaits *)

NoRequest == [op |-> "none"]
NoResponse == [status |-> 0]

InitChat ==
    /\ pc = "idle"
    /\ optimizedMessages = << >>
    /\ sent = << >>
    /\ streamOn = FALSE
    /\ upStatus = 0
    /\ resStatus = 200
    /\ contentType = "none"
    /\ resBody = NoBody
    /\ headersSent = FALSE
    /\ endCalls = 0
    /\ escaped = FALSE
    /\ decoder = NewDecoder
    /\ received = << >>
    /\ written = << >>
    /\ writeCalls = 0
    /\ readsIssued = 0
    /\ unforwarded = 0
    /\ disconnected = FALSE
    /\ readsAfterClose = 0
    /\ upErrorBody = "none"
    /\ upstreamFailure = "none"
    /\ tokensGenerated = 0

InitRequest ==
    /\ InitChat
    /\ handlers = << >>
    /\ apiReq = NoRequest
    /\ apiRes = NoResponse

Init ==
    /\ keyConfigured \in BOOLEAN
    /\ body \in Bodies
    /\ InitRequest

\* from the entry of the handler to its await of fetch
ChatStart ==
    /\ pc = "idle"
    /\ LET p == Preflight(keyConfigured, body)
           o == Truncate(body.messages)
       IN  CASE p = "config" ->
                  /\ ResJson(contentType, 500, ErrorJson("API key not configured"))
                  /\ pc' = "done"
                  /\ UNCHANGED <<optimizedMessages, sent, streamOn, escaped>>
             [] p = "input" ->
                  /\ ResJson(contentType, 400, ErrorJson("Invalid messages format"))
                  /\ pc' = "done"
                  /\ UNCHANGED <<optimizedMessages, sent, streamOn, escaped>>
             [] p = "throws" ->
                  /\ escaped' = TRUE
                  /\ pc' = "threw"
                  /\ UNCHANGED <<optimizedMessages, sent, streamOn, resVars>>
             [] OTHER ->
                  /\ optimizedMessages' = o
                  /\ streamOn' = (body.stream # "false")
                  /\ sent' = Append(sent, [messages |-> o,
                                           max_tokens |-> MaxTokens(body),
                                           stream |-> (body.stream # "false")])
                  /\ pc' = "fetching"
                  /\ UNCHANGED <<resVars, escaped>>
    /\ UNCHANGED <<otherVars, reqVars, upStatus, streamVars, disconnected, upErrorBody,
                   upstreamFailure>>

\* fetch rejected: no retry, the outer catch answers
FetchFailedRetry ==
    /\ sent' = Append(sent, Head(sent))
    /\ pc' = "fetching"
    /\ UNCHANGED <<resVars, escaped>>

FetchFailed ==
    /\ OuterCatch
    /\ UNCHANGED sent

FetchReject ==
    /\ pc = "fetching"
    /\ upstreamFailure' = "fetchReject"
    /\ FetchFailed
    /\ UNCHANGED <<otherVars, reqVars, optimizedMessages, streamOn, upStatus, streamVars,
                   disconnected, upErrorBody>>

\* fetch resolved with status s; hasBody: response.body is not null
FetchResolve(s, hasBody) ==
    /\ pc = "fetching"
    /\ upStatus' = s
    /\ IF ~Ok(s)
         THEN /\ pc' = "errorBody"
              /\ upstreamFailure' = "status"
              /\ UNCHANGED <<resVars, readsIssued>>
       ELSE IF streamOn
         THEN IF hasBody
                THEN /\ contentType' = "text/event-stream"
                     /\ readsIssued' = 1
                     /\ pc' = "reading"
                     /\ UNCHANGED <<resStatus, resBody, headersSent, endCalls,
                                    upstreamFailure>>
                ELSE /\ ResJson("text/event-stream", 500,
                                ErrorJson("Failed to get response stream"))
                     /\ pc' = "done"
                     /\ upstreamFailure' = "noReader"
                     /\ UNCHANGED readsIssued
       ELSE /\ pc' = "jsonBody"
            /\ UNCHANGED <<resVars, readsIssued, upstreamFailure>>
    /\ UNCHANGED <<otherVars, reqVars, optimizedMessages, sent, streamOn, escaped, decoder,
                   received, written, writeCalls, unforwarded, readsAfterClose,
                   tokensGenerated, disconnected, upErrorBody>>

\* the body of a non-success answer has been read (or could not be parsed)
ErrorBody(e) ==
    /\ pc = "errorBody"
    /\ upErrorBody' = e
    /\ IF e = "null"
         THEN OuterCatch
         ELSE /\ ResJson(contentType, upStatus, ErrorJson(ErrorMessage(e)))
              /\ pc' = "done"
              /\ UNCHANGED escaped
    /\ UNCHANGED <<otherVars, reqVars, optimizedMessages, sent, streamOn, upStatus,
                   streamVars, disconnected, upstreamFailure>>

\* non-stream mode: the body of the answer has been read
JsonBody(d) ==
    /\ pc = "jsonBody"
    /\ IF d = "completion"
         THEN /\ ResJson(contentType, resStatus, DataJson)
              /\ pc' = "done"
              /\ UNCHANGED <<escaped, upstreamFailure>>
         ELSE /\ OuterCatch
              /\ upstreamFailure' = IF d = "null" THEN "nullBody" ELSE "jsonParse"
    /\ UNCHANGED <<otherVars, reqVars, optimizedMessages, sent, streamOn, upStatus,
                   streamVars, disconnected, upErrorBody>>

\* the catch of the stream loop
InnerCatchWritesError ==
    /\ ResEnd
    /\ written' = written \o << 97 >>
    /\ writeCalls' = writeCalls + 1

InnerCatch ==
    /\ ResEnd
    /\ UNCHANGED <<written, writeCalls>>

BytesReceived == Len(Flatten(received))

\* reader.read() resolved with a chunk: decode, write, read again
ReadChunk(value) ==
    /\ pc = "reading"
    /\ LET r == Decode(decoder, value)
       IN  /\ decoder' = r.dec
           /\ tokensGenerated' = tokensGenerated + Telemetry(r.out)
           /\ written' = written \o Encode(r.out)
           /\ unforwarded' = IF PendingBytes(r.dec) = 0 THEN 0
                             ELSE IF PendingBytes(r.dec) <= Len(value) THEN 1
                             ELSE unforwarded + 1
    /\ received' = Append(received, value)
    /\ writeCalls' = writeCalls + 1
    /\ headersSent' = TRUE
    /\ readsIssued' = readsIssued + 1
    /\ readsAfterClose' = IF disconnected THEN readsAfterClose + 1
                          ELSE readsAfterClose
    /\ UNCHANGED <<otherVars, reqVars, pc, optimizedMessages, sent, streamOn, upStatus,
                   resStatus, contentType, resBody, endCalls, escaped,
                   disconnected, upErrorBody, upstreamFailure>>

\* reader.read() resolved with done
ReadDoneWritesSentinel ==
    /\ pc = "reading"
    /\ ResEnd
    /\ pc' = "done"
    /\ written' = written \o << DataPrefix, Sentinel >>
    /\ writeCalls' = writeCalls + 1
    /\ UNCHANGED <<otherVars, reqVars, optimizedMessages, sent, streamOn, upStatus,
                   escaped, decoder, received, readsIssued, unforwarded,
                   readsAfterClose, tokensGenerated, disconnected, upErrorBody,
                   upstreamFailure>>

ReadDone ==
    /\ pc = "reading"
    /\ ResEnd
    /\ pc' = "done"
    /\ UNCHANGED <<otherVars, reqVars, optimizedMessages, sent, streamOn, upStatus, escaped,
                   streamVars, disconnected, upErrorBody, upstreamFailure>>

\* reader.read() rejected
ReadError ==
    /\ pc = "reading"
    /\ InnerCatch
    /\ pc' = "done"
    /\ upstreamFailure' = "readError"
    /\ UNCHANGED <<otherVars, reqVars, optimizedMessages, sent, streamOn, upStatus, escaped,
                   decoder, received, readsIssued, unforwarded, readsAfterClose,
                   tokensGenerated, disconnected, upErrorBody>>

\* the caller closes its connection while the stream is relayed; the handler
\* registers no listener for it
CallerDisconnect ==
    /\ pc = "reading"
    /\ ~disconnected
    /\ disconnected' = TRUE
    /\ UNCHANGED <<otherVars, reqVars, pc, optimizedMessages, sent, streamOn, upStatus,
                   resVars, escaped, streamVars, upErrorBody, upstreamFailure>>

Next ==
    \/ ChatStart
    \/ FetchReject
    \/ \E s \in UpstreamStatuses, hasBody \in BOOLEAN : FetchResolve(s, hasBody)
    \/ \E e \in UpstreamErrorBodies : ErrorBody(e)
    \/ \E d \in UpstreamJsonBodies : JsonBody(d)
    \/ \E n \in 1..(MaxBytes - BytesReceived) :
          \E value \in [1..n -> UpstreamBytes] : ReadChunk(value)
    \/ ReadDone
    \/ ReadError
    \/ CallerDisconnect

Spec == Init /\ [][Next]_vars

\* the steps of the handler: each runs once the promise it awaits is settled
HandlerStep ==
    \/ ChatStart
    \/ FetchReject
    \/ \E s \in UpstreamStatuses, hasBody \in BOOLEAN : FetchResolve(s, hasBody)
    \/ \E e \in UpstreamErrorBodies : ErrorBody(e)
    \/ \E d \in UpstreamJsonBodies : JsonBody(d)
    \/ \E n \in 1..(MaxBytes - BytesReceived) :
          \E value \in [1..n -> UpstreamBytes] : ReadChunk(value)
    \/ ReadDone
    \/ ReadError

\* upstream settles every fetch and every read, and sends finitely many chunks
SpecLive == Init /\ [][Next]_vars /\ WF_vars(HandlerStep)

(* The Conversation Truncator on histories longer than its budget *)

InitTruncator ==
    /\ keyConfigured = TRUE
    /\ \E k \in 0..MaxMsgs : \E f \in [1..k -> Roles] :
          body = [kind |-> "array",
                  messages |-> [i \in 1..k |-> [role |-> f[i], id |-> i]],
                  stream |-> "true", maxTokens |-> << >>]
    /\ InitRequest

NextTruncator == ChatStart

SpecTruncator == InitTruncator /\ [][NextTruncator]_vars

(* The stream branch on event-stream lines *)

SseSymbols == {NewLine, DataPrefix, Sentinel, DeltaOpen, ContentChar, DeltaClose}

InitStream ==
    /\ keyConfigured = TRUE
    /\ body \in ArrayBodies({ << [role |-> "user", id |-> 1] >> }, {"absent", "true"})
    /\ InitRequest

NextStream ==
    \/ ChatStart
    \/ \E hasBody \in BOOLEAN : FetchResolve(200, hasBody)
    \/ \E n \in 1..(MaxSseBytes - BytesReceived) :
          \E value \in [1..n -> SseSymbols] : ReadChunk(value)
    \/ ReadDone
    \/ ReadError

SpecStream == InitStream /\ [][NextStream]_vars

(* A streamed response whose data lines may carry a byte that is no UTF-8 *)

TelemetrySymbols == {NewLine, DataPrefix, DeltaOpen, ContentChar, DeltaClose, 255}

NextTelemetry ==
    \/ ChatStart
    \/ \E hasBody \in BOOLEAN : FetchResolve(200, hasBody)
    \/ \E n \in 1..(MaxSseBytes - BytesReceived) :
          \E value \in [1..n -> TelemetrySymbols] : ReadChunk(value)
    \/ ReadDone
    \/ ReadError

SpecTelemetry == InitStream /\ [][NextTelemetry]_vars

(* The request sent upstream for every maxTokens of the caller *)

InitTokenLimit ==
    /\ keyConfigured = TRUE
    /\ \E t \in { << >> } \cup { << n >> : n \in 0..MaxSuppliedTokens } :
          body = [kind |-> "array", messages |-> << [role |-> "user", id |-> 1] >>,
                  stream |-> "true", maxTokens |-> t]
    /\ InitRequest

NextTokenLimit == ChatStart

SpecTokenLimit == InitTokenLimit /\ [][NextTokenLimit]_vars

-----------------------------------------------------------------------------
(* Two chat requests in flight at the same time.  Every name the handler   *)
(* uses is a const or let of its own invocation, so each request has its   *)
(* own record; the steps of the two interleave at their awaits.            *)

ReqIds == {1, 2}

\* the upstream streams the two requests are followed on
ConcurrentStreams ==
    { << << DataPrefix, DeltaOpen, ContentChar, DeltaClose, NewLine >> >>,
      << << DataPrefix, DeltaOpen >>, << ContentChar, DeltaClose >> >>,
      << << 97, 239 >>, << 187, 191 >> >>,
      << << DataPrefix, Sentinel >> >> }

ConcurrentMessages ==
    { << [role |-> "user", id |-> 1] >>,
      << [role |-> "user", id |-> 1], [role |-> "system", id |-> 2] >> }

NewHandler(msgs, stream) ==
    [pc |-> "idle", messages |-> msgs, optimizedMessages |-> << >>,
     upstream |-> stream, decoder |-> NewDecoder, received |-> << >>,
     written |-> << >>, tokensGenerated |-> 0, failed |-> FALSE]

InitConcurrent ==
    /\ keyConfigured = TRUE
    /\ body \in ArrayBodies({ << >> }, {"true"})
    /\ InitChat
    /\ apiReq = NoRequest
    /\ apiRes = NoResponse
    /\ handlers \in [ReqIds -> { NewHandler(m, u) : m \in ConcurrentMessages,
                                                    u \in ConcurrentStreams }]

\* the decoder a request decodes its chunks with: its own (line 115)
SharedDecoder(h, r) == h[1].decoder

HandlerDecoder(h, r) == h[r].decoder

\* request r runs from its entry to its await of fetch
ConcurrentStart(r) ==
    /\ handlers[r].pc = "idle"
    /\ handlers' = [handlers EXCEPT
          ![r].optimizedMessages = Truncate(handlers[r].messages),
          ![r].pc = "fetching"]
    /\ UNCHANGED <<chatVars, apiVars>>

\* the fetch of request r resolves with a success status and a body
ConcurrentFetchResolve(r) ==
    /\ handlers[r].pc = "fetching"
    /\ handlers' = [handlers EXCEPT ![r].pc = "reading"]
    /\ UNCHANGED <<chatVars, apiVars>>

\* a read of request r resolves with the next chunk of its upstream stream
ConcurrentReadChunk(r) ==
    /\ handlers[r].pc = "reading"
    /\ Len(handlers[r].received) < Len(handlers[r].upstream)
    /\ LET value == handlers[r].upstream[Len(handlers[r].received) + 1]
           d == Decode(HandlerDecoder(handlers, r), value)
       IN  handlers' = [handlers EXCEPT
              ![r].decoder = d.dec,
              ![r].received = Append(@, value),
              ![r].tokensGenerated = @ + Telemetry(d.out),
              ![r].written = @ \o Encode(d.out)]
    /\ UNCHANGED <<chatVars, apiVars>>

\* a read of request r resolves with done
ConcurrentReadDone(r) ==
    /\ handlers[r].pc = "reading"
    /\ Len(handlers[r].received) = Len(handlers[r].upstream)
    /\ handlers' = [handlers EXCEPT ![r].pc = "done"]
    /\ UNCHANGED <<chatVars, apiVars>>

\* a read of request r rejects
ConcurrentReadError(r) ==
    /\ handlers[r].pc = "reading"
    /\ handlers' = [handlers EXCEPT ![r].pc = "done", ![r].failed = TRUE]
    /\ UNCHANGED <<chatVars, apiVars>>

NextConcurrent ==
    \E r \in ReqIds :
        \/ ConcurrentStart(r)
        \/ ConcurrentFetchResolve(r)
        \/ ConcurrentReadChunk(r)
        \/ ConcurrentReadDone(r)
        \/ ConcurrentReadError(r)

SpecConcurrent == InitConcurrent /\ [][NextConcurrent]_vars

-----------------------------------------------------------------------------
(* The Program Generator: POST /api/generate-program *)

ProgramDays == 30

\* an exercise; tempo, swaps and notes are optional (empty when absent)
Exercise(id, name, sets, reps, tempo, rest, swaps) ==
    [id |-> << id >>, name |-> name, sets |-> sets, reps |-> reps, tempo |-> tempo,
     rest |-> rest, swaps |-> swaps, notes |-> << >>]

\* Math.ceil(day / 7)
WeekOf(day) == (day + 6) \div 7

\* Math.min(3 + Math.floor(week / 2), 5)
WorkingSetsByThirds(week) ==
    IF 3 + (week \div 3) < 5 THEN 3 + (week \div 3) ELSE 5

WorkingSets(week) ==
    IF 3 + (week \div 2) < 5 THEN 3 + (week \div 2) ELSE 5

\* the branch of the exercise lists: barbell, else dumbbells, else bodyweight
TierDumbbellsFirst(hasDumbbells, hasBarbell) ==
    IF hasDumbbells THEN "dumbbell"
    ELSE IF hasBarbell THEN "barbell"
    ELSE "bodyweight"

Tier(hasDumbbells, hasBarbell) ==
    IF hasBarbell THEN "barbell"
    ELSE IF hasDumbbells THEN "dumbbell"
    ELSE "bodyweight"

UpperBodyList(tier, sets) ==
    IF tier = "barbell" THEN
      << Exercise(1, "Barbell Bench Press", sets, "8-12", << "2-0-2" >>, 90, << >>),
         Exercise(2, "Barbell Row", sets, "8-12", << "2-0-2" >>, 90, << >>),
         Exercise(3, "Overhead Press", sets, "8-10", << "2-0-2" >>, 90, << >>),
         Exercise(4, "Barbell Curl", 3, "10-12", << >>, 60, << >>),
         Exercise(5, "Tricep Extension", 3, "10-12", << >>, 60, << >>) >>
    ELSE IF tier = "dumbbell" THEN
      << Exercise(1, "Dumbbell Bench Press", sets, "10-12", << "2-0-2" >>, 75, << >>),
         Exercise(2, "Dumbbell Row", sets, "10-12", << "2-0-2" >>, 75, << >>),
         Exercise(3, "Dumbbell Shoulder Press", sets, "8-10", << >>, 75, << >>),
         Exercise(4, "Dumbbell Curl", 3, "10-12", << >>, 60, << >>),
         Exercise(5, "Overhead Tricep Extension", 3, "10-12", << >>, 60, << >>) >>
    ELSE
      << Exercise(1, "Push-ups", sets, "12-15", << >>, 60,
                  << "Knee Push-ups", "Incline Push-ups" >>),
         Exercise(2, "Inverted Rows", sets, "10-12", << >>, 60,
                  << "Door Frame Rows" >>),
         Exercise(3, "Pike Push-ups", sets, "8-10", << >>, 60, << >>),
         Exercise(4, "Diamond Push-ups", 3, "10-12", << >>, 45, << >>),
         Exercise(5, "Plank Hold", 3, "30-60s", << >>, 45, << >>) >>

LowerBodyList(tier, sets) ==
    IF tier = "barbell" THEN
      << Exercise(1, "Barbell Squat", sets, "8-12", << "3-0-1" >>, 120, << >>),
         Exercise(2, "Romanian Deadlift", sets, "8-12", << "3-0-1" >>, 90, << >>),
         Exercise(3, "Bulgarian Split Squat", sets, "10-12/leg", << >>, 75, << >>),
         Exercise(4, "Leg Curl", 3, "12-15", << >>, 60, << >>),
         Exercise(5, "Calf Raises", 4, "15-20", << >>, 45, << >>) >>
    ELSE IF tier = "dumbbell" THEN
      << Exercise(1, "Goblet Squat", sets, "10-15", << >>, 90, << >>),
         Exercise(2, "Dumbbell Romanian Deadlift", sets, "10-12", << >>, 90, << >>),
         Exercise(3, "Dumbbell Lunges", sets, "10-12/leg", << >>, 75, << >>),
         Exercise(4, "Single-Leg Deadlift", 3, "8-10/leg", << >>, 60, << >>),
         Exercise(5, "Dumbbell Calf Raises", 4, "15-20", << >>, 45, << >>) >>
    ELSE
      << Exercise(1, "Bodyweight Squat", sets, "15-20", << >>, 60, << >>),
         Exercise(2, "Single-Leg Romanian Deadlift", sets, "10-12/leg", << >>, 60,
                  << >>),
         Exercise(3, "Bulgarian Split Squat", sets, "12-15/leg", << >>, 60, << >>),
         Exercise(4, "Glute Bridge", 3, "15-20", << >>, 45, << >>),
         Exercise(5, "Wall Sit", 3, "30-60s", << >>, 45, << >>) >>

getUpperBodyExercises(hasEquipment, hasDumbbells, hasBarbell, week) ==
    UpperBodyList(Tier(hasDumbbells, hasBarbell), WorkingSets(week))

getLowerBodyExercises(hasEquipment, hasDumbbells, hasBarbell, week) ==
    LowerBodyList(Tier(hasDumbbells, hasBarbell), WorkingSets(week))

getFullBodyExercises(hasEquipment, week) ==
    IF hasEquipment THEN
      << Exercise(1, "Dumbbell Thruster", 3, "12-15", << >>, 45, << >>),
         Exercise(2, "Renegade Row", 3, "10-12/side", << >>, 45, << >>),
         Exercise(3, "Goblet Squat", 3, "15-20", << >>, 45, << >>),
         Exercise(4, "Dumbbell Swing", 3, "15-20", << >>, 45, << >>),
         Exercise(5, "Mountain Climbers", 3, "20-30", << >>, 30, << >>) >>
    ELSE
      << Exercise(1, "Burpees", 3, "10-15", << >>, 45, << >>),
         Exercise(2, "Jump Squats", 3, "12-15", << >>, 45, << >>),
         Exercise(3, "Push-ups", 3, "12-15", << >>, 45, << >>),
         Exercise(4, "Plank to Downward Dog", 3, "10-12", << >>, 45, << >>),
         Exercise(5, "High Knees", 3, "30-45s", << >>, 30, << >>) >>

WorkoutDayFromZero(day, type, duration, exercises) ==
    [id |-> day, day |-> day - 1, type |-> type, duration |-> duration,
     exercises |-> exercises, completed |-> FALSE]

Workout(day, type, duration, exercises) ==
    [id |-> day, day |-> day, type |-> type, duration |-> duration,
     exercises |-> exercises, completed |-> FALSE]

generateWorkoutForDay(day, hasEquipment, hasDumbbells, hasBarbell, timePerWorkout) ==
    LET week == WeekOf(day)
        dayOfWeek == day % 7
    IN  IF dayOfWeek = 1 \/ dayOfWeek = 4
          THEN Workout(day, "Upper Body", timePerWorkout,
                 getUpperBodyExercises(hasEquipment, hasDumbbells, hasBarbell, week))
        ELSE IF dayOfWeek = 2 \/ dayOfWeek = 5
          THEN Workout(day, "Lower Body", timePerWorkout,
                 getLowerBodyExercises(hasEquipment, hasDumbbells, hasBarbell, week))
        ELSE IF dayOfWeek = 3 \/ dayOfWeek = 6
          THEN Workout(day, "Full Body Circuit", timePerWorkout,
                 getFullBodyExercises(hasEquipment, week))
        ELSE Workout(day, "Active Recovery", timePerWorkout,
                 << [Exercise(1, "Light Activity", 1, "20 min", << >>, 0, << >>)
                       EXCEPT !.id = << day, 1 >>] >>)

\* day % 7 === 0
IsRestDaySixth(day) == day % 7 = 6

IsRestDay(day) == day % 7 = 0

RestDayWorkout(day) ==
    Workout(day, "Active Recovery", 15,
        << [Exercise(1, "Light Walk or Stretch", 1, "15 min", << >>, 0, << >>)
              EXCEPT !.id = << day, 1 >>,
                     !.notes = << "Focus on mobility and recovery" >>] >>)

\* the loop of the handler: one workout pushed per day
RECURSIVE PushWorkouts(_, _, _)
PushWorkouts(workouts, day, onboarding) ==
    IF day > ProgramDays THEN workouts
    ELSE LET hasEquipment == onboarding.equipment # << >>
             hasDumbbells == \E i \in DOMAIN onboarding.equipment :
                                onboarding.equipment[i] = "Dumbbells"
             hasBarbell == \E i \in DOMAIN onboarding.equipment :
                              onboarding.equipment[i] = "Barbell"
             w == IF IsRestDay(day) THEN RestDayWorkout(day)
                  ELSE generateWorkoutForDay(day, hasEquipment, hasDumbbells,
                           hasBarbell, onboarding.timeAvailability)
         IN  PushWorkouts(Append(workouts, w), day + 1, onboarding)

EquipmentItems == {"Barbell", "Dumbbells", "Kettlebell", "Resistance Bands"}

\* the equipment arrays: the subsets of the items, each in one order
RECURSIVE SeqOfSet(_)
SeqOfSet(S) ==
    IF S = {} THEN << >>
    ELSE LET x == CHOOSE y \in S : TRUE IN << x >> \o SeqOfSet(S \ {x})

TimeAvailabilities == {15, 30, 45, 60}

\* payload: no onboarding, an onboarding without an equipment array, or both
\* fields present
ProgramRequests ==
    { [op |-> "generate-program", payload |-> p,
       onboarding |-> [equipment |-> << >>, timeAvailability |-> 0]] :
       p \in {"absent", "noEquipment"} }
    \cup { [op |-> "generate-program", payload |-> "present",
            onboarding |-> [equipment |-> SeqOfSet(e), timeAvailability |-> t]] :
            e \in SUBSET EquipmentItems, t \in TimeAvailabilities }

ErrorResponseOk(s, m) == [status |-> 200, error |-> m]

ErrorResponse(s, m) == [status |-> s, error |-> m]

InitProgram ==
    /\ keyConfigured = TRUE
    /\ body \in ArrayBodies({ << >> }, {"true"})
    /\ InitChat
    /\ handlers = << >>
    /\ apiReq \in ProgramRequests
    /\ apiRes = NoResponse

\* the handler of POST /api/generate-program
GenerateProgram ==
    /\ apiReq.op = "generate-program"
    /\ apiRes = NoResponse
    /\ apiRes' = IF apiReq.payload = "absent"
                   THEN ErrorResponse(400, "Onboarding data required")
                   ELSE IF apiReq.payload = "noEquipment"
                   THEN ErrorResponse(500, "TypeError")
                   ELSE [status |-> 200,
                         workouts |-> PushWorkouts(<< >>, 1, apiReq.onboarding)]
    /\ UNCHANGED <<chatVars, handlers, apiReq>>

NextProgram == GenerateProgram

SpecProgram == InitProgram /\ [][NextProgram]_vars

-----------------------------------------------------------------------------
(* The Macro Calculator: POST /api/calculate-nutrition *)

\* The numbers of the handler are quarters, tenths and ninths of integers; they
\* are kept as fractions n / d with d > 0. Over the inputs drawn below the
\* maintenance calories are positive, where the products of the doubles round
\* to the same integers as the exact ones.

\* Math.round(n / d): the nearest integer, a half going up
Round(n, d) == (2 * n + d) \div (2 * d)

\* 4 * calculateBMR(weight, height, age)
calculateBMR4(weight, height, age) == 40 * weight + 25 * height - 20 * age + 20

\* 10 * activityMultiplier
ActivityMultiplierMidDefault(fitnessLevel) ==
    IF fitnessLevel = "beginner" THEN 13
    ELSE IF fitnessLevel = "advanced" THEN 17
    ELSE 15

ActivityMultiplier(fitnessLevel) ==
    IF fitnessLevel = "beginner" THEN 13
    ELSE IF fitnessLevel = "intermediate" THEN 15
    ELSE 17

MaintenanceCalories(o) ==
    Round(calculateBMR4(o.weight, o.height, o.age) * ActivityMultiplier(o.fitnessLevel),
          40)

TargetCalories(o) ==
    IF o.goal = "shred" THEN Round(MaintenanceCalories(o) * 8, 10)
    ELSE IF o.goal = "build" THEN Round(MaintenanceCalories(o) * 11, 10)
    ELSE MaintenanceCalories(o)

\* 10 * proteinPerLb
ProteinPerLb(goal) ==
    IF goal = "shred" THEN 12 ELSE IF goal = "build" THEN 10 ELSE 9

CarbCaloriesWithoutFat(targetCalories, proteinCalories, fatCalories) ==
    targetCalories - proteinCalories

CarbCalories(targetCalories, proteinCalories, fatCalories) ==
    targetCalories - proteinCalories - fatCalories

NutritionPlan(o) ==
    LET targetCalories == TargetCalories(o)
        proteinGrams == Round(o.weight * ProteinPerLb(o.goal), 10)
        proteinCalories == proteinGrams * 4
        fatCalories == Round(targetCalories * 25, 100)
        fatGrams == Round(fatCalories, 9)
        carbCalories == CarbCalories(targetCalories, proteinCalories, fatCalories)
        carbGrams == Round(carbCalories, 4)
    IN  [status |-> 200, calories |-> targetCalories, protein |-> proteinGrams,
         carbs |-> carbGrams, fats |-> fatGrams, meals |-> << >>]

Weights == {60, 75, 120}

Heights == {2, 175, 176, 177, 178}

Ages == {30, 31, 70}

FitnessLevels == {"beginner", "intermediate", "advanced", "elite"}

Goals == {"shred", "build", "reset"}

NutritionRequests ==
    { [op |-> "calculate-nutrition", payload |-> "absent",
       onboarding |-> [weight |-> 0, height |-> 0, age |-> 0,
                       fitnessLevel |-> "", goal |-> ""]] }
    \cup { [op |-> "calculate-nutrition", payload |-> "present",
            onboarding |-> [weight |-> w, height |-> h, age |-> a,
                            fitnessLevel |-> f, goal |-> g]] :
            w \in Weights, h \in Heights, a \in Ages, f \in FitnessLevels,
            g \in Goals }

InitNutrition ==
    /\ keyConfigured = TRUE
    /\ body \in ArrayBodies({ << >> }, {"true"})
    /\ InitChat
    /\ handlers = << >>
    /\ apiReq \in NutritionRequests
    /\ apiRes = NoResponse

\* the handler of POST /api/calculate-nutrition
CalculateNutrition ==
    /\ apiReq.op = "calculate-nutrition"
    /\ apiRes = NoResponse
    /\ apiRes' = IF apiReq.payload = "absent"
                   THEN ErrorResponse(400, "Onboarding data required")
                   ELSE NutritionPlan(apiReq.onboarding)
    /\ UNCHANGED <<chatVars, handlers, apiReq>>

NextNutrition == CalculateNutrition

SpecNutrition == InitNutrition /\ [][NextNutrition]_vars

-----------------------------------------------------------------------------
(* The Persona: POST /api/system-prompt *)

MaxCoachingStyle == 12

\* onboardingData.coachingStyle: absent, a text that is no number, or a number
\* given in halves (halves = 7 is 3.5)
CoachingStyles ==
    { [kind |-> k, halves |-> 0] : k \in {"absent", "text"} }
    \cup { [kind |-> "number", halves |-> h] :
            h \in (-2 * MaxCoachingStyle)..(2 * MaxCoachingStyle) }

\* the two copies of the handler differ in the label of the last band
Builds == {"server/index.ts", "unnamed/part_001"}

\* Number(onboardingData.coachingStyle) || 5, in halves
CoachingStyleKeepZero(c) ==
    IF c.kind # "number" THEN 10 ELSE c.halves

CoachingStyle(c) ==
    IF c.kind # "number" \/ c.halves = 0 THEN 10 ELSE c.halves

HardLabel(build) == IF build = "server/index.ts" THEN "hardtruth" ELSE "direct"

StyleLabelNarrowBalanced(build, coachingStyle) ==
    IF coachingStyle >= 2 /\ coachingStyle <= 6 THEN "gentle"
    ELSE IF coachingStyle >= 12 /\ coachingStyle <= 14 THEN "balanced"
    ELSE HardLabel(build)

StyleLabel(build, coachingStyle) ==
    IF coachingStyle >= 2 /\ coachingStyle <= 6 THEN "gentle"
    ELSE IF coachingStyle >= 8 /\ coachingStyle <= 14 THEN "balanced"
    ELSE HardLabel(build)

PersonaRequests ==
    { [op |-> "system-prompt", build |-> b, payload |-> "absent",
       onboardingData |-> [coachingStyle |-> [kind |-> "absent", halves |-> 0]]] :
       b \in Builds }
    \cup { [op |-> "system-prompt", build |-> b, payload |-> "present",
            onboardingData |-> [coachingStyle |-> c]] :
            b \in Builds, c \in CoachingStyles }

InitPersona ==
    /\ keyConfigured = TRUE
    /\ body \in ArrayBodies({ << >> }, {"true"})
    /\ InitChat
    /\ handlers = << >>
    /\ apiReq \in PersonaRequests
    /\ apiRes = NoResponse

\* the handler of POST /api/system-prompt; of the prompt it builds only the
\* style is kept
SystemPrompt ==
    /\ apiReq.op = "system-prompt"
    /\ apiRes = NoResponse
    /\ apiRes' =
          IF apiReq.payload = "absent"
            THEN ErrorResponse(400, "Onboarding data required")
          ELSE LET styleLabel == StyleLabel(apiReq.build,
                       CoachingStyle(apiReq.onboardingData.coachingStyle))
               IN  [status |-> 200, systemPrompt |-> << styleLabel >>,
                    styleLabel |-> styleLabel]
    /\ UNCHANGED <<chatVars, handlers, apiReq>>

NextPersona == SystemPrompt

SpecPersona == InitPersona /\ [][NextPersona]_vars

-----------------------------------------------------------------------------
(* The three operations that take an onboarding payload *)

InitOnboarding ==
    /\ keyConfigured = TRUE
    /\ body \in ArrayBodies({ << >> }, {"true"})
    /\ InitChat
    /\ handlers = << >>
    /\ apiReq \in ProgramRequests \cup NutritionRequests \cup PersonaRequests
    /\ apiRes = NoResponse

NextOnboarding ==
    \/ GenerateProgram
    \/ CalculateNutrition
    \/ SystemPrompt

SpecOnboarding == InitOnboarding /\ [][NextOnboarding]_vars

-----------------------------------------------------------------------------
(* The lookups: GET /api/daily-prompt/:day and GET /api/milestone/:day *)

MaxDayLen == 3

Digits == {"0", "1", "2", "3", "5", "7"}

\* the characters of req.params.day
DayChars == Digits \cup {"-", "a"}

DigitValue(c) ==
    CASE c = "0" -> 0 [] c = "1" -> 1 [] c = "2" -> 2 [] c = "3" -> 3
      [] c = "5" -> 5 [] c = "7" -> 7

\* the value of the longest prefix of digits of str, << >> when it is empty
RECURSIVE ParseDigits(_, _, _)
ParseDigits(str, seen, acc) ==
    IF str = << >> \/ str[1] \notin Digits
      THEN IF seen THEN << acc >> ELSE << >>
    ELSE ParseDigits(Tail(str), TRUE, 10 * acc + DigitValue(str[1]))

\* parseInt(string): an optional sign, then the longest prefix of digits; what
\* follows the digits is ignored; << >> is NaN
ParseInt(str) ==
    IF str # << >> /\ str[1] = "-"
      THEN LET r == ParseDigits(Tail(str), FALSE, 0)
           IN  IF r = << >> THEN << >> ELSE << 0 - r[1] >>
    ELSE ParseDigits(str, FALSE, 0)

\* the em dash of the source texts is written --
Prompts ==
    [d \in {1, 5, 10, 15, 20, 25, 30} |->
       CASE d = 1 -> "Day 1: You're not starting over. You're starting new. That's a different energy. Own it."
         [] d = 5 -> "Day 5: Milestone. You showed up 5 days in a row. That's not luck--that's discipline. Keep building."
         [] d = 10 -> "Day 10: You're one-third through. The person who started this isn't the same person reading this now. Notice that."
         [] d = 15 -> "Day 15: Halfway. This is where most people quit. You're not most people."
         [] d = 20 -> "Day 20: The habit is forming. It's no longer about willpower--it's about identity."
         [] d = 25 -> "Day 25: Five days left. You can see the finish line. Don't coast. Finish strong."
         [] d = 30 -> "Day 30: You did it. 30 days of discipline, consistency, and growth. This isn't the end--it's the foundation."]

\* `Day ${day}: Show up. ...`
FallbackPrompt(day) ==
    << "Day ", day,
       ": Show up. Do the work. Trust the process. That's how transformation happens." >>

Milestones ==
    [d \in {5, 10, 15, 20, 25, 30} |->
       CASE d = 5 ->
              [title |-> "Day 5: Momentum Building",
               message |-> "You've made it through the hardest part--the start. Your body is adapting. Your mind is getting stronger. This is where real change begins.",
               icon |-> "trending-up"]
         [] d = 10 ->
              [title |-> "Day 10: Breaking Through",
               message |-> "Ten days of discipline. You're proving to yourself that you can do this. The person you're becoming is taking shape.",
               icon |-> "zap"]
         [] d = 15 ->
              [title |-> "Halfway There",
               message |-> "Fifteen days. You've crossed the halfway mark. The habits are forming. The results are showing. Keep pushing.",
               icon |-> "award"]
         [] d = 20 ->
              [title |-> "Day 20: Unstoppable",
               message |-> "Twenty days of showing up. Twenty days of choosing discipline over comfort. You're not the same person who started this journey.",
               icon |-> "star"]
         [] d = 25 ->
              [title |-> "The Final Stretch",
               message |-> "Five days left. You can see the finish line. But this isn't about finishing--it's about building a life. Stay focused.",
               icon |-> "target"]
         [] d = 30 ->
              [title |-> "Transformation Complete",
               message |-> "Thirty days. You did it. But this isn't the end--it's the beginning of who you've become. The discipline you built here? That's yours forever.",
               icon |-> "check-circle"]]

LookupOps == {"daily-prompt", "milestone"}

InitLookup ==
    /\ keyConfigured = TRUE
    /\ body \in ArrayBodies({ << >> }, {"true"})
    /\ InitChat
    /\ handlers = << >>
    /\ \E op \in LookupOps : \E n \in 1..MaxDayLen : \E str \in [1..n -> DayChars] :
          apiReq = [op |-> op, day |-> str]
    /\ apiRes = NoResponse

\* the handler of GET /api/daily-prompt/:day
DailyPrompt ==
    /\ apiReq.op = "daily-prompt"
    /\ apiRes = NoResponse
    /\ LET day == ParseInt(apiReq.day)
       IN  apiRes' =
             IF day = << >> \/ day[1] < 1 \/ day[1] > 30
               THEN ErrorResponse(400, "Invalid day number")
             ELSE [status |-> 200,
                   prompt |-> IF day[1] \in DOMAIN Prompts
                                THEN << Prompts[day[1]] >>
                              ELSE FallbackPrompt(day[1])]
    /\ UNCHANGED <<chatVars, handlers, apiReq>>

\* the handler of GET /api/milestone/:day
Milestone ==
    /\ apiReq.op = "milestone"
    /\ apiRes = NoResponse
    /\ LET day == ParseInt(apiReq.day)
       IN  apiRes' =
             IF day = << >> THEN ErrorResponse(400, "Invalid day number")
             ELSE IF day[1] \notin DOMAIN Milestones
               THEN ErrorResponse(404, "No milestone for this day")
             ELSE [status |-> 200, milestone |-> Milestones[day[1]]]
    /\ UNCHANGED <<chatVars, handlers, apiReq>>

NextLookup ==
    \/ DailyPrompt
    \/ Milestone

SpecLookup == InitLookup /\ [][NextLookup]_vars

-----------------------------------------------------------------------------
(* Properties *)

IsPrefix(a, b) == Len(a) <= Len(b) /\ SubSeq(b, 1, Len(a)) = a

\* upstream failures that happen before the streaming response has started
PreStreamFailures == {"fetchReject", "status", "jsonParse", "nullBody", "noReader"}

\* the stream was relayed up to the end-of-stream of upstream
EndedAfterEndOfStream ==
    pc = "done" /\ readsIssued > 0 /\ upstreamFailure = "none"

(* C1: the list sent upstream is the first system message of the input, if  *)
(* it has one, followed by the last min(12, n) of its n non-system messages *)
(* in their original order; so it has at most 13 entries, the system        *)
(* message comes first and no retained message is reordered.                *)
C1_Truncation ==
    pc = "fetching" =>
        LET msgs == body.messages
            out == sent[1].messages
            U == { i \in DOMAIN msgs : msgs[i].role # "system" }
            S == DOMAIN msgs \ U
            n == Cardinality(U)
            k == IF n < 12 THEN n ELSE 12
            off == IF S = {} THEN 0 ELSE 1
        IN  /\ Len(out) = off + k
            /\ Len(out) <= 13
            /\ S # {} => out[1] = msgs[Min(S)]
            /\ \A j \in 1..k :
                  \E i \in U : /\ out[off + j] = msgs[i]
                               /\ Cardinality({ u \in U : u > i }) = k - j

\* a history of 13 non-system messages with its system message in the middle
C1_Witness ==
    /\ pc = "fetching"
    /\ Len(body.messages) = 14
    /\ body.messages[1].role = "user"
    /\ \E i \in DOMAIN body.messages : body.messages[i].role = "system"
    /\ Len(sent[1].messages) = 13
    /\ sent[1].messages[2].id > 1

(* C2: in streaming mode the bytes written to the caller are at every       *)
(* moment a prefix of the bytes received from upstream, and they are equal  *)
(* once the response is ended after the end-of-stream of upstream.          *)
C2_BytesRelayedUnmodified ==
    /\ IsPrefix(written, Flatten(received))
    /\ EndedAfterEndOfStream => written = Flatten(received)

(* C3: once the caller has disconnected from a streaming response, no       *)
(* further read is issued to upstream for that request.                     *)
C3_NoReadAfterDisconnect == readsAfterClose = 0

(* C4 as stated: a request whose messages are absent or not an array is     *)
(* answered with status 400 and a JSON error, and nothing is sent upstream. *)
C4_Original ==
    body.kind # "array" =>
        /\ sent = << >>
        /\ pc # "idle" => /\ pc = "done"
                          /\ resStatus = 400
                          /\ resBody.kind = "error"

(* C4 amended: when an upstream API key is configured, a request whose      *)
(* messages are absent or not an array is answered with status 400 and the  *)
(* JSON error 'Invalid messages format', and nothing is sent upstream;      *)
(* without a key nothing is sent upstream either.                           *)
C4_InvalidMessagesRejected ==
    body.kind # "array" =>
        /\ sent = << >>
        /\ (keyConfigured /\ pc # "idle") =>
              /\ pc = "done"
              /\ resStatus = 400
              /\ resBody = ErrorJson("Invalid messages format")
              /\ endCalls = 1

C4_Witness ==
    /\ keyConfigured
    /\ body.kind = "notArray"
    /\ pc = "done"
    /\ resStatus = 400

(* C5: without an upstream API key every chat request, whatever its body,   *)
(* is answered at once with status 500 and a generic JSON error, and        *)
(* nothing is sent upstream.                                                *)
C5_MissingKeyRejected ==
    ~keyConfigured =>
        /\ sent = << >>
        /\ pc # "idle" => /\ pc = "done"
                          /\ resStatus = 500
                          /\ resBody = ErrorJson("API key not configured")
                          /\ endCalls = 1
                          /\ ~escaped

C5_Witness ==
    /\ ~keyConfigured
    /\ body.kind = "notArray"
    /\ pc = "done"
    /\ resStatus = 500

(* C6: a non-success upstream status s is answered with status s and the    *)
(* JSON error m, m being the error.message of the upstream body when        *)
(* present and the generic fallback otherwise, and the stream branch is not *)
(* entered: no event-stream header, no chunk read or written.               *)
C6_UpstreamErrorRelayed ==
    (pc = "done" /\ upstreamFailure = "status") =>
        /\ resStatus = upStatus
        /\ resBody = ErrorJson(IF upErrorBody = "error_message"
                                 THEN UpstreamMessage ELSE "OpenAI API error")
        /\ contentType = "application/json"
        /\ readsIssued = 0
        /\ writeCalls = 0

(* C7: when a read of the upstream body fails after streaming has started,  *)
(* the response is ended and nothing more is written: no error frame, no    *)
(* JSON body, no change of status; what was written stays as sent.          *)
C7_ReadFailureEndsSilently ==
    [][(pc = "reading" /\ upstreamFailure' = "readError") =>
          /\ written' = written
          /\ writeCalls' = writeCalls
          /\ resStatus' = resStatus
          /\ contentType' = contentType
          /\ resBody' = NoBody
          /\ endCalls' = 1
          /\ pc' = "done"
          /\ ~escaped']_vars

C7_Witness ==
    /\ upstreamFailure = "readError"
    /\ pc = "done"
    /\ written # << >>
    /\ endCalls = 1

(* C8: every upstream failure of a validated request that happens before    *)
(* the streaming response has started (fetch rejects, non-success status,   *)
(* unparsable body in non-stream mode, missing body reader) ends in one     *)
(* JSON {error} response with an error status, and no exception leaves the  *)
(* handler.                                                                 *)
C8_FailuresBecomeResponses ==
    /\ sent # << >> => ~escaped
    /\ (upstreamFailure \in PreStreamFailures /\ pc # "errorBody") =>
          /\ pc = "done"
          /\ resBody.kind = "error"
          /\ resStatus >= 400
          /\ endCalls = 1
          /\ writeCalls = 0

C8_Witness ==
    /\ upstreamFailure = "fetchReject"
    /\ pc = "done"
    /\ resStatus = 500
    /\ resBody = ErrorJson("Internal server error")

(* C9: at most one request is sent upstream for a chat request, and a       *)
(* failed upstream call (network failure or non-success status) surfaces as *)
(* a single error response.                                                 *)
C9_NoRetry ==
    /\ Len(sent) <= 1
    /\ (pc = "done" /\ upstreamFailure \in {"fetchReject", "status"}) =>
          /\ Len(sent) = 1
          /\ endCalls = 1
          /\ resBody.kind = "error"

C9_Witness ==
    /\ upstreamFailure = "status"
    /\ upStatus = 429
    /\ pc = "done"
    /\ Len(sent) = 1
    /\ endCalls = 1

(* C10: each upstream chunk is forwarded before the next one is read: the   *)
(* relay never holds more than one received chunk whose bytes have not been *)
(* forwarded.                                                               *)
C10_AtMostOneChunkHeld ==
    /\ unforwarded <= 1
    /\ writeCalls = Len(received)


\* the line `data: [DONE]` occurs in a string
HasSentinel(str) ==
    \E i \in 1..(Len(str) - 1) : str[i] = DataPrefix /\ str[i + 1] = Sentinel

\* the line `data: [DONE]` ends a string
EndsWithSentinel(str) ==
    \E i \in 1..(Len(str) - 1) :
        /\ str[i] = DataPrefix /\ str[i + 1] = Sentinel
        /\ \A j \in (i + 2)..Len(str) : str[j] = NewLine

RECURSIVE SoloRelay(_, _)
SoloRelay(d, chunks) ==
    IF chunks = << >> THEN [written |-> << >>, tokens |-> 0]
    ELSE LET r == Decode(d, Head(chunks))
             t == SoloRelay(r.dec, Tail(chunks))
         IN  [written |-> Encode(r.out) \o t.written,
              tokens |-> Telemetry(r.out) + t.tokens]

(* C12: under every interleaving of two concurrent streaming requests each  *)
(* caller receives the chunks of its own upstream stream, in order, as a    *)
(* request running alone would relay them, and the truncated message list   *)
(* and the token estimate of a request are those of its own input and its   *)
(* own chunks.                                                              *)
C12_RequestsIndependent ==
    \A r \in ReqIds :
        LET h == handlers[r]
            solo == SoloRelay(NewDecoder, h.received)
        IN  /\ h.received = SubSeq(h.upstream, 1, Len(h.received))
            /\ h.written = solo.written
            /\ h.tokensGenerated = solo.tokens
            /\ h.pc # "idle" => h.optimizedMessages = Truncate(h.messages)
            /\ (h.pc = "done" /\ ~h.failed) => h.received = h.upstream

\* request 1 is inside a split character while request 2 has relayed a delta
C12_Witness ==
    /\ handlers[1].pc = "reading"
    /\ handlers[1].decoder.needed > 0
    /\ handlers[2].pc = "done"
    /\ handlers[2].tokensGenerated > 0
    /\ handlers[2].received # << >>


(* C13: the max_tokens forwarded to the upstream provider never exceeds     *)
(* 300, whatever maxTokens the caller supplies.                             *)
C13_TokenLimit ==
    \A i \in DOMAIN sent : sent[i].max_tokens <= 300

\* the program returned for a valid onboarding
ProgramReturned ==
    /\ apiReq.op = "generate-program"
    /\ apiReq.payload = "present"
    /\ apiRes.status = 200

\* C14: the program generated for a valid onboarding has exactly 30
\* workouts, the i-th has day = i, and every day that is a multiple of 7 is an
\* Active Recovery workout with exactly one exercise.
C14_ThirtyDaysWithRestDays ==
    ProgramReturned =>
        /\ Len(apiRes.workouts) = 30
        /\ \A i \in 1..Len(apiRes.workouts) :
              /\ apiRes.workouts[i].day = i
              /\ (i % 7 = 0) =>
                    /\ apiRes.workouts[i].type = "Active Recovery"
                    /\ Len(apiRes.workouts[i].exercises) = 1

C14_Witness ==
    /\ ProgramReturned
    /\ apiReq.onboarding.equipment # << >>
    /\ Len(apiRes.workouts) = 30
    /\ apiRes.workouts[28].type = "Active Recovery"
    /\ apiRes.workouts[29].type = "Upper Body"

\* the first three exercises of an Upper Body or Lower Body workout carry the
\* working-set count
PrimarySets(w) == { w.exercises[j].sets : j \in 1..3 }

IsSplitWorkout(w) == w.type \in {"Upper Body", "Lower Body"}

\* C15: every primary exercise of an Upper Body or Lower Body workout has
\* min(3 + floor(week / 2), 5) sets with week = ceil(day / 7), that is 3, 4, 4,
\* 5, 5 for weeks 1 to 5, in every equipment tier, and the count never
\* decreases as the day increases.
C15_WorkingSets ==
    ProgramReturned =>
        /\ \A i \in 1..Len(apiRes.workouts) :
              IsSplitWorkout(apiRes.workouts[i]) =>
                  PrimarySets(apiRes.workouts[i]) =
                      { << 3, 4, 4, 5, 5 >>[(i + 6) \div 7] }
        /\ \A i, k \in 1..Len(apiRes.workouts) :
              /\ i < k
              /\ IsSplitWorkout(apiRes.workouts[i])
              /\ IsSplitWorkout(apiRes.workouts[k])
              => \A a \in PrimarySets(apiRes.workouts[i]) :
                    \A b \in PrimarySets(apiRes.workouts[k]) : a <= b

C15_Witness ==
    /\ ProgramReturned
    /\ PrimarySets(apiRes.workouts[1]) = {3}
    /\ PrimarySets(apiRes.workouts[8]) = {4}
    /\ PrimarySets(apiRes.workouts[22]) = {5}
    /\ PrimarySets(apiRes.workouts[30]) = {5}

Includes(equipment, item) == \E i \in DOMAIN equipment : equipment[i] = item

Names(exercises) == [j \in DOMAIN exercises |-> exercises[j].name]

\* C16: with "Barbell" in the equipment the Upper Body and Lower Body
\* exercise names are those of the barbell lists, whether or not "Dumbbells" is
\* there too; with "Dumbbells" and no "Barbell" they are those of the dumbbell
\* lists; with neither they are those of the bodyweight lists.
C16_EquipmentPrecedence ==
    ProgramReturned =>
        LET eq == apiReq.onboarding.equipment
            tier == IF Includes(eq, "Barbell") THEN "barbell"
                    ELSE IF Includes(eq, "Dumbbells") THEN "dumbbell"
                    ELSE "bodyweight"
        IN  \A i \in 1..Len(apiRes.workouts) :
              /\ apiRes.workouts[i].type = "Upper Body" =>
                    Names(apiRes.workouts[i].exercises) =
                        Names(UpperBodyList(tier, 3))
              /\ apiRes.workouts[i].type = "Lower Body" =>
                    Names(apiRes.workouts[i].exercises) =
                        Names(LowerBodyList(tier, 3))

C16_Witness ==
    /\ ProgramReturned
    /\ Includes(apiReq.onboarding.equipment, "Barbell")
    /\ Includes(apiReq.onboarding.equipment, "Dumbbells")
    /\ apiRes.workouts[1].exercises[1].name = "Barbell Bench Press"
    /\ apiRes.workouts[2].exercises[1].name = "Barbell Squat"

\* the plan returned for an onboarding payload
PlanReturned ==
    /\ apiReq.op = "calculate-nutrition"
    /\ apiReq.payload = "present"
    /\ apiRes.status = 200

\* r is n / d rounded to the nearest integer, a half going up
IsRounded(r, n, d) == 2 * d * r - d <= 2 * n /\ 2 * n < 2 * d * r + d

\* C17: the plan is the one of the reference algorithm: maintenance =
\* round((10 weight + 6.25 height - 5 age + 5) m) with m = 1.3, 1.5 or 1.7,
\* calories = round(0.8 maintenance), round(1.1 maintenance) or maintenance,
\* protein = round(weight p) with p = 1.2, 1.0 or 0.9, fats =
\* round(round(0.25 calories) / 9) and carbs = round((calories - 4 protein -
\* round(0.25 calories)) / 4); weight 75, height 175, age 30, shred,
\* intermediate gives 2038, 90, 57 and 292.
C17_ReferenceAlgorithm ==
    PlanReturned =>
        LET o == apiReq.onboarding
            m == IF o.fitnessLevel = "beginner" THEN 13
                 ELSE IF o.fitnessLevel = "intermediate" THEN 15 ELSE 17
            p == IF o.goal = "shred" THEN 12 ELSE IF o.goal = "build" THEN 10 ELSE 9
            bmr400 == 1000 * o.weight + 625 * o.height - 500 * o.age + 500
        IN  /\ \E maintenance \in 0..5000 :
                  /\ IsRounded(maintenance, bmr400 * m, 1000)
                  /\ IF o.goal = "shred"
                        THEN IsRounded(apiRes.calories, 8 * maintenance, 10)
                      ELSE IF o.goal = "build"
                        THEN IsRounded(apiRes.calories, 11 * maintenance, 10)
                      ELSE apiRes.calories = maintenance
            /\ IsRounded(apiRes.protein, o.weight * p, 10)
            /\ \E fatCalories \in 0..2000 :
                  /\ IsRounded(fatCalories, apiRes.calories, 4)
                  /\ IsRounded(apiRes.fats, fatCalories, 9)
                  /\ IsRounded(apiRes.carbs,
                         apiRes.calories - 4 * apiRes.protein - fatCalories, 4)
            /\ (o = [weight |-> 75, height |-> 175, age |-> 30,
                     fitnessLevel |-> "intermediate", goal |-> "shred"])
                 => /\ apiRes.calories = 2038
                    /\ apiRes.protein = 90
                    /\ apiRes.fats = 57
                    /\ apiRes.carbs = 292

C17_Witness ==
    /\ PlanReturned
    /\ apiReq.onboarding = [weight |-> 75, height |-> 175, age |-> 30,
                            fitnessLevel |-> "intermediate", goal |-> "shred"]
    /\ apiRes.calories = 2038

\* C18: for every request with an onboarding payload the protein, carbs and
\* fats returned are each at least 0.
C18_MacrosNonNegative ==
    PlanReturned => apiRes.protein >= 0 /\ apiRes.carbs >= 0 /\ apiRes.fats >= 0

Abs(x) == IF x < 0 THEN -x ELSE x

Deviation ==
    Abs(4 * apiRes.protein + 9 * apiRes.fats + 4 * apiRes.carbs - apiRes.calories)

\* C19: the calories of the macro grams returned differ from the calories
\* returned by at most 6.
C19_CalorieMathConsistent ==
    PlanReturned => Deviation <= 6

C19_Witness ==
    /\ PlanReturned
    /\ Deviation >= 5

\* the persona returned for a numeric coachingStyle
StyleReturned ==
    /\ apiReq.op = "system-prompt"
    /\ apiReq.payload = "present"
    /\ apiReq.onboardingData.coachingStyle.kind = "number"
    /\ apiRes.status = 200

HardLabels == {"hardtruth", "direct"}

\* C20 as stated: gentle for 1 to 3, balanced for 4 to 7, the hardtruth/direct
\* label for 8 to 10 and for every numeric value below 1 or above 10, 0
\* included.
C20_Original ==
    StyleReturned =>
        LET h == apiReq.onboardingData.coachingStyle.halves
        IN  /\ (2 <= h /\ h <= 6) => apiRes.styleLabel = "gentle"
            /\ (8 <= h /\ h <= 14) => apiRes.styleLabel = "balanced"
            /\ ((16 <= h /\ h <= 20) \/ h < 2 \/ h > 20)
                 => apiRes.styleLabel \in HardLabels

\* C20: the styleLabel is gentle for a coachingStyle from 1 to 3, balanced from
\* 4 to 7 and for 0, which is replaced by the default 5, and the hardtruth or
\* direct label for every other number: 8 to 10, above 10, below 1 and not 0,
\* and between the bands.
C20_StyleBand ==
    StyleReturned =>
        LET h == apiReq.onboardingData.coachingStyle.halves
        IN  apiRes.styleLabel =
              IF 2 <= h /\ h <= 6 THEN "gentle"
              ELSE IF (8 <= h /\ h <= 14) \/ h = 0 THEN "balanced"
              ELSE IF apiReq.build = "server/index.ts" THEN "hardtruth"
              ELSE "direct"

C20_Witness ==
    /\ StyleReturned
    /\ apiReq.onboardingData.coachingStyle.halves = 0
    /\ apiRes.styleLabel = "balanced"

\* C21: when coachingStyle is absent or is no number, it defaults to 5 and the
\* styleLabel returned is balanced.
C21_StyleDefault ==
    /\ apiReq.op = "system-prompt"
    /\ apiReq.payload = "present"
    /\ apiReq.onboardingData.coachingStyle.kind \in {"absent", "text"}
    /\ apiRes # NoResponse
    => apiRes.status = 200 /\ apiRes.styleLabel = "balanced"

C21_Witness ==
    /\ apiReq.op = "system-prompt"
    /\ apiReq.payload = "present"
    /\ apiReq.onboardingData.coachingStyle.kind = "text"
    /\ apiRes # NoResponse
    /\ apiRes.styleLabel = "balanced"

OnboardingOps == {"system-prompt", "generate-program", "calculate-nutrition"}

\* C22: the persona, program and nutrition operations answer a request
\* without onboarding payload with status 400 and a JSON error and nothing
\* computed; a program request with an onboarding payload is answered with
\* the complete list of 30 workouts or with an error, never a shorter list.
C22_RejectedOrTotal ==
    (apiReq.op \in OnboardingOps /\ apiRes # NoResponse) =>
        /\ apiReq.payload = "absent" =>
              /\ DOMAIN apiRes = {"status", "error"}
              /\ apiRes.status = 400
              /\ apiRes.error = "Onboarding data required"
        /\ (apiReq.op = "generate-program" /\ apiReq.payload # "absent") =>
              \/ /\ DOMAIN apiRes = {"status", "error"}
                 /\ apiRes.status >= 400
              \/ /\ apiRes.status = 200
                 /\ Len(apiRes.workouts) = 30

C22_Witness ==
    /\ apiReq.op = "generate-program"
    /\ apiReq.payload = "absent"
    /\ apiRes # NoResponse
    /\ apiRes.status = 400

\* the text is an integer: an optional sign and then digits only
IsInteger(str) ==
    LET digits == IF str[1] = "-" THEN Tail(str) ELSE str
    IN  digits # << >> /\ \A i \in DOMAIN digits : digits[i] \in Digits

\* the value of a text that is an integer, << >> for any other text
ParseIntStrict(str) ==
    LET digits == IF str # << >> /\ str[1] = "-" THEN Tail(str) ELSE str
    IN  IF \A i \in DOMAIN digits : digits[i] \in Digits
          THEN IF digits = << >> THEN << >>
               ELSE IF str[1] = "-" THEN << 0 - ParseDigits(digits, FALSE, 0)[1] >>
               ELSE ParseDigits(digits, FALSE, 0)
        ELSE << >>

\* the integer the text denotes
IntegerOf(str) == ParseIntStrict(str)[1]

LookupAnswered(op) == apiReq.op = op /\ apiRes # NoResponse

\* C23: for every integer day in 1..30 the daily prompt is the fixed literal
\* when the day is one of 1, 5, 10, 15, 20, 25, 30 and otherwise the generic
\* fallback that names the day; a day that is not a number or lies outside
\* 1..30 is rejected with status 400.
C23_DailyPromptLookup ==
    LookupAnswered("daily-prompt") =>
        IF IsInteger(apiReq.day) /\ IntegerOf(apiReq.day) \in 1..30
          THEN /\ apiRes.status = 200
               /\ apiRes.prompt =
                    IF IntegerOf(apiReq.day) \in {1, 5, 10, 15, 20, 25, 30}
                      THEN << Prompts[IntegerOf(apiReq.day)] >>
                    ELSE FallbackPrompt(IntegerOf(apiReq.day))
        ELSE apiRes.status = 400

\* C24: the milestone object is returned exactly for the days 5, 10, 15, 20,
\* 25, 30; every other integer day is answered with status 404 and a day that
\* is not a number with status 400.
C24_MilestoneLookup ==
    LookupAnswered("milestone") =>
        IF ~IsInteger(apiReq.day) THEN apiRes.status = 400
        ELSE IF IntegerOf(apiReq.day) \in {5, 10, 15, 20, 25, 30}
          THEN /\ apiRes.status = 200
               /\ apiRes.milestone = Milestones[IntegerOf(apiReq.day)]
        ELSE apiRes.status = 404

\* a data line of a chunk whose payload is no JSON, or is a delta without
\* content
UncountableLine(line) ==
    /\ IsDataLine(line)
    /\ LET data == Trim(RemoveFirstData(line))
       IN  /\ data # << Sentinel >>
           /\ \/ ~ParsesAsDelta(data)
              \/ data = << DeltaOpen, DeltaClose >>

\* every data line of the chunk is uncountable, and there is one
OnlyUncountableLines(value) ==
    LET lines == SplitLines(value, << >>)
    IN  /\ \E i \in DOMAIN lines : UncountableLine(lines[i])
        /\ \A i \in DOMAIN lines : IsDataLine(lines[i]) => UncountableLine(lines[i])

\* C25: a chunk whose data lines are no valid JSON, or have no content, leaves
\* the token estimate unchanged, is forwarded unmodified, and does not end the
\* stream: the reading goes on.
C25_TelemetryNonFatal ==
    [][(pc = "reading" /\ Len(received') = Len(received) + 1
        /\ OnlyUncountableLines(received'[Len(received')]))
       => /\ tokensGenerated' = tokensGenerated
          /\ written' = written \o received'[Len(received')]
          /\ pc' = "reading"
          /\ endCalls' = endCalls]_vars

\* the part of C25 that is about the telemetry alone
TelemetryNonFatalButForBytes ==
    [][(pc = "reading" /\ Len(received') = Len(received) + 1
        /\ OnlyUncountableLines(received'[Len(received')]))
       => /\ tokensGenerated' = tokensGenerated
          /\ writeCalls' = writeCalls + 1
          /\ pc' = "reading"
          /\ endCalls' = endCalls]_vars

\* C26: the token estimate depends only on the data lines upstream sent, not
\* on how they were split into chunks: it is the estimate of the same bytes
\* arriving as a single chunk.
C26_LineBufferedTelemetry ==
    pc \in {"reading", "done"} => tokensGenerated = Telemetry(Flatten(received))

\* C27: every day d of 1..30 that is no multiple of 7 is an Upper Body workout
\* when d mod 7 is 1 or 4, Lower Body when it is 2 or 5 and Full Body Circuit
\* when it is 3 or 6; so the Light Activity fallback of generateWorkoutForDay
\* is never produced and the program has exactly four Active Recovery days.
C27_WeeklyTemplate ==
    ProgramReturned =>
        /\ \A d \in 1..30 :
              d % 7 # 0 =>
                  apiRes.workouts[d].type =
                      CASE d % 7 \in {1, 4} -> "Upper Body"
                        [] d % 7 \in {2, 5} -> "Lower Body"
                        [] d % 7 \in {3, 6} -> "Full Body Circuit"
        /\ \A d \in DOMAIN apiRes.workouts :
              \A j \in DOMAIN apiRes.workouts[d].exercises :
                  apiRes.workouts[d].exercises[j].name # "Light Activity"
        /\ { d \in DOMAIN apiRes.workouts :
               apiRes.workouts[d].type = "Active Recovery" } = {7, 14, 21, 28}

C27_Witness ==
    /\ ProgramReturned
    /\ apiRes.workouts[3].type = "Full Body Circuit"
    /\ apiRes.workouts[6].type = "Full Body Circuit"
    /\ apiRes.workouts[7].exercises[1].name = "Light Walk or Stretch"

\* C28: the list sent upstream has at most one system message: the first
\* system message of the input, placed first wherever it stood; the other
\* system messages are dropped and do not count against the budget of 12;
\* truncating the list sent returns it unchanged.
C28_OneSystemMessage ==
    pc = "fetching" =>
        LET msgs == body.messages
            out == sent[1].messages
            S == { i \in DOMAIN msgs : msgs[i].role = "system" }
            n == Len(msgs) - Cardinality(S)
            outS == { j \in DOMAIN out : out[j].role = "system" }
        IN  /\ Cardinality(outS) <= 1
            /\ S # {} => (outS = {1} /\ \A i \in S : out[1].id <= msgs[i].id)
            /\ S = {} => outS = {}
            /\ Len(out) - Cardinality(outS) = IF n < 12 THEN n ELSE 12
            /\ Truncate(out) = out

\* two system messages, none leading, among 12 others: all 12 are kept
C28_Witness ==
    /\ pc = "fetching"
    /\ Len(body.messages) = 14
    /\ body.messages[1].role = "user"
    /\ Cardinality({ i \in DOMAIN body.messages :
                       body.messages[i].role = "system" }) = 2
    /\ Len(sent[1].messages) = 13
    /\ sent[1].messages[1].role = "system"

C30_EventuallyEnds == <>(pc = "done")

\* every request without a null element in its messages ends its response
EndsUnlessNullElement ==
    <>(pc = "done" \/ (body.kind = "array" /\ HasNull(body.messages)))

====
